---- MODULE Spec2Model ----
(***************************************************************************)
(* Model of Paper-3/em_detection.py: the temporal smoothing loop of        *)
(* predict_probability, the clip aggregator predict_output and the         *)
(* band-pass conditioner butter_bandpass_filter.                           *)
(*                                                                         *)
(* Probabilities are carried in tenths (9 stands for 0.9), so that the     *)
(* comparison  np.mean(prob_list) > th  is the exact integer comparison    *)
(* SeqSum(prob_list) > th * Len(prob_list).                                *)
(*                                                                         *)
(* extract_mfccs (line 210) is not defined in the file; the frame list it  *)
(* returns is an input of the evaluation: its length is nframes[p], and    *)
(* the score model.predict gives each frame is an input as well, either    *)
(* any value of Probs at each call or the next value of a scripted         *)
(* sequence.  model.predict may raise instead of returning.                *)
(***************************************************************************)
EXTENDS Integers, Sequences, FiniteSets, TLC

\* ------------------------------------------------------------------ bounds
MaxFrames == 14          \* longest frame list evaluated with a free scorer
MaxLen == 4              \* longest recording given to the conditioner

\* --------------------------------------------------------------- constants
N == 10                  \* window size (line 213)
th_low == 5 - 1
th == 5                  \* 0.5 in tenths (line 214)

Procs == {1, 2}          \* clip evaluations
Probs == {1, 9}          \* scores a free scorer may return: 0.1 and 0.9
Samples == {-1000, 0, 1000}

VARIABLES
  pc,          \* pc[p]: "idle", "fill", "steady", "done", "raised"
  nframes,     \* nframes[p] = len(mfccs_list)
  scorer,      \* scorer[p]: [mode |-> "free" | "script", seq |-> scores per frame]
  i,           \* i[p]: index of the next frame to score
  prob_list,   \* prob_list[p]: the probability window
  class_list,  \* class_list[p]: the running decisions
  label,       \* label[p]: {v} once predict_output returned v, {} before
  err,         \* err[p]: "none", "IndexError", "ScorerUnavailable"
  pushed,      \* history: the scores model.predict returned, in order
  calls,       \* history: number of model.predict calls
  failed,      \* history: model.predict raised
  data,        \* the recording handed to the conditioner
  ywhole,      \* output of one call on the whole recording
  wdone,       \* the whole-recording call has been made
  yblocks,     \* concatenated outputs of the per-block calls
  bpos,        \* samples of the recording conditioned block by block so far
  firstlen     \* length of the first block, 0 before the first block call

evars == <<pc, nframes, scorer, i, prob_list, class_list, label, err,
           pushed, calls, failed>>
fvars == <<data, ywhole, wdone, yblocks, bpos, firstlen>>
vars == <<pc, nframes, scorer, i, prob_list, class_list, label, err,
          pushed, calls, failed, data, ywhole, wdone, yblocks, bpos, firstlen>>

\* ----------------------------------------------------------------- helpers
RECURSIVE SeqSum(_)
SeqSum(s) == IF s = <<>> THEN 0 ELSE Head(s) + SeqSum(Tail(s))

RECURSIVE Rev(_)
Rev(s) == IF s = <<>> THEN <<>> ELSE Append(Rev(Tail(s)), Head(s))

\* ---------------------------------------------------- smoother, aggregator
\* prob > th with prob = np.mean(prob_list)  (lines 225-233, 240-247)
ClassifyGE(w) == IF SeqSum(w) >= th * Len(w) THEN 1 ELSE 0
Classify(w) == IF SeqSum(w) > th * Len(w) THEN 1 ELSE 0

\* prob_list.pop(0)  (line 236)
pop_last(s) == SubSeq(s, 1, Len(s) - 1)
pop_none(s) == s
pop0(s) == Tail(s)

\* np.mean(class_list) > 0.5  (lines 256-259); the mean of an empty list is
\* NaN and NaN > 0.5 is False
AggregateGE(cl) == IF Len(cl) > 0 /\ 2 * SeqSum(cl) >= Len(cl) THEN 1 ELSE 0
Aggregate(cl) == IF Len(cl) > 0 /\ 2 * SeqSum(cl) > Len(cl) THEN 1 ELSE 0

\* prob_list is a local of each call (line 218): storing the window of
\* evaluation p leaves the other evaluation's window alone
StoreShared(p, w) == [q \in Procs |-> w]
StoreWindow(p, w) == [prob_list EXCEPT ![p] = w]

\* what model.predict may return for frame k (1-based) of evaluation p
ScorerOut(p, k) ==
  IF scorer[p].mode = "free" THEN Probs ELSE {scorer[p].seq[k]}

Free == [mode |-> "free", seq |-> <<>>]
Scripted(s) == [mode |-> "script", seq |-> s]

Script910 == [k \in 1..20 |-> IF k <= 10 THEN 9 ELSE 1]
ScriptHalf == [k \in 1..12 |-> 5]
ScriptShort == <<9, 1, 9>>
ScriptMostly == [k \in 1..11 |-> IF k % 3 = 0 THEN 1 ELSE 9]
Scripts == {Script910, ScriptHalf, ScriptShort, ScriptMostly}

\* ------------------------------------------------------------- conditioner
\* butter(order, [low, high], btype='band') for the defaults of line 58,
\* taps in units of 1/10000; a_taps[1] is a[0] = 1.0
b_taps == <<33, 0, -164, 0, 328, 0, -328, 0, 164, 0, -33>>
a_taps == <<10000, -57207, 157768, -275627, 337438, -301855, 199491,
            -96155, 32418, -6934, 723>>

RECURSIVE Dot(_, _, _, _)
\* sum over k = from..upto of c[k+1] * s[n-k]
Dot(c, s, n, k) ==
  IF k >= Len(c) \/ n - k < 1 THEN 0
  ELSE c[k + 1] * s[n - k] + Dot(c, s, n, k + 1)

RECURSIVE lfilter_rec(_, _, _, _)
lfilter_rec(b, a, x, y) ==
  IF Len(y) = Len(x) THEN y
  ELSE LET n == Len(y) + 1
           acc == Dot(b, x, n, 0) - Dot(a, Append(y, 0), n, 1)
       IN lfilter_rec(b, a, x, Append(y, acc \div a[1]))

\* lfilter(b, a, data): direct-form recursion from zero initial conditions
lfilter(b, a, x) == lfilter_rec(b, a, x, <<>>)

filtfilt_filter(x) == Rev(lfilter(b_taps, a_taps, Rev(lfilter(b_taps, a_taps, x))))
butter_bandpass_filter(x) == lfilter(b_taps, a_taps, x)

\* ------------------------------------------------- predict_probability
\* for i in range(N): one iteration whose frame exists and whose
\* model.predict call returns (lines 221-224); the N-th iteration is
\* followed by the first decision (lines 225-233)
FillPush(p) ==
  /\ pc[p] = "fill" /\ i[p] < N /\ i[p] < nframes[p]
  /\ \E s \in ScorerOut(p, i[p] + 1) :
       LET w == Append(prob_list[p], s) IN
       /\ prob_list' = StoreWindow(p, w)
       /\ pushed' = [pushed EXCEPT ![p] = Append(@, s)]
       /\ IF i[p] + 1 = N
            THEN /\ class_list' = [class_list EXCEPT ![p] = Append(@, Classify(w))]
                 /\ pc' = [pc EXCEPT ![p] = "steady"]
            ELSE UNCHANGED <<class_list, pc>>
  /\ calls' = [calls EXCEPT ![p] = @ + 1]
  /\ i' = [i EXCEPT ![p] = @ + 1]
  /\ UNCHANGED <<nframes, scorer, label, err, failed>>
  /\ UNCHANGED fvars

\* mfccs_list[i] with i >= len(mfccs_list) raises IndexError (line 222);
\* nothing catches it, so predict_probability and predict_output end
FillIndexSwallow(p) ==
  /\ pc[p] = "fill" /\ i[p] < N /\ ~(i[p] < nframes[p])
  /\ pc' = [pc EXCEPT ![p] = "done"]
  /\ label' = [label EXCEPT ![p] = {Aggregate(class_list[p])}]
  /\ UNCHANGED <<nframes, scorer, i, prob_list, class_list, err, pushed, calls, failed>>
  /\ UNCHANGED fvars
FillIndexError(p) ==
  /\ pc[p] = "fill" /\ i[p] < N /\ ~(i[p] < nframes[p])
  /\ pc' = [pc EXCEPT ![p] = "raised"]
  /\ err' = [err EXCEPT ![p] = "IndexError"]
  /\ UNCHANGED <<nframes, scorer, i, prob_list, class_list, label, pushed, calls, failed>>
  /\ UNCHANGED fvars

\* model.predict raises (lines 222, 237): no except clause anywhere, the
\* exception leaves predict_probability and predict_output.  In the second
\* loop prob_list.pop(0) (line 236) has already run.
ScorerImpute(p) ==
  /\ pc[p] \in {"fill", "steady"} /\ i[p] < nframes[p]
  /\ calls' = [calls EXCEPT ![p] = @ + 1]
  /\ failed' = [failed EXCEPT ![p] = TRUE]
  /\ LET w == Append(IF pc[p] = "steady" THEN pop0(prob_list[p]) ELSE prob_list[p], 0) IN
       /\ prob_list' = StoreWindow(p, w)
       /\ IF pc[p] = "steady" \/ i[p] + 1 = N
            THEN /\ class_list' = [class_list EXCEPT ![p] = Append(@, Classify(w))]
                 /\ pc' = [pc EXCEPT ![p] = "steady"]
            ELSE UNCHANGED <<class_list, pc>>
  /\ i' = [i EXCEPT ![p] = @ + 1]
  /\ UNCHANGED <<nframes, scorer, label, err, pushed>>
  /\ UNCHANGED fvars
ScorerFails(p) ==
  /\ pc[p] \in {"fill", "steady"} /\ i[p] < nframes[p]
  /\ calls' = [calls EXCEPT ![p] = @ + 1]
  /\ failed' = [failed EXCEPT ![p] = TRUE]
  /\ prob_list' = IF pc[p] = "steady"
                    THEN StoreWindow(p, pop0(prob_list[p]))
                    ELSE prob_list
  /\ pc' = [pc EXCEPT ![p] = "raised"]
  /\ err' = [err EXCEPT ![p] = "ScorerUnavailable"]
  /\ UNCHANGED <<nframes, scorer, i, class_list, label, pushed>>
  /\ UNCHANGED fvars

\* for i in range(N, len(mfccs_list)): one iteration whose model.predict
\* call returns (lines 235-247)
SteadyPush(p) ==
  /\ pc[p] = "steady" /\ i[p] < nframes[p]
  /\ \E s \in ScorerOut(p, i[p] + 1) :
       LET w == Append(pop0(prob_list[p]), s) IN
       /\ prob_list' = StoreWindow(p, w)
       /\ pushed' = [pushed EXCEPT ![p] = Append(@, s)]
       /\ class_list' = [class_list EXCEPT ![p] = Append(@, Classify(w))]
  /\ calls' = [calls EXCEPT ![p] = @ + 1]
  /\ i' = [i EXCEPT ![p] = @ + 1]
  /\ UNCHANGED <<pc, nframes, scorer, label, err, failed>>
  /\ UNCHANGED fvars

\* the second loop is exhausted, predict_probability returns class_list
\* (line 249) and predict_output reduces it (lines 253-259)
predict_output(p) ==
  /\ pc[p] = "steady" /\ ~(i[p] < nframes[p])
  /\ label' = [label EXCEPT ![p] = {Aggregate(class_list[p])}]
  /\ pc' = [pc EXCEPT ![p] = "done"]
  /\ UNCHANGED <<nframes, scorer, i, prob_list, class_list, err, pushed, calls, failed>>
  /\ UNCHANGED fvars

\* ------------------------------------------------------------ conditioner
\* one call of butter_bandpass_filter on the whole recording
ConditionWhole ==
  /\ data # <<>> /\ ~wdone
  /\ ywhole' = butter_bandpass_filter(data)
  /\ wdone' = TRUE
  /\ UNCHANGED <<data, yblocks, bpos, firstlen>>
  /\ UNCHANGED evars

\* one call of butter_bandpass_filter on the next block of the recording;
\* the function takes and returns no filter state (lines 58-70)
ConditionBlock ==
  /\ bpos < Len(data)
  /\ \E len \in 1..(Len(data) - bpos) :
       /\ yblocks' = yblocks \o butter_bandpass_filter(SubSeq(data, bpos + 1, bpos + len))
       /\ bpos' = bpos + len
       /\ firstlen' = IF bpos = 0 THEN len ELSE firstlen
  /\ UNCHANGED <<data, ywhole, wdone>>
  /\ UNCHANGED evars

\* ---------------------------------------------------------- specifications
EvalIdle ==
  /\ i = [p \in Procs |-> 0]
  /\ prob_list = [p \in Procs |-> <<>>]
  /\ class_list = [p \in Procs |-> <<>>]
  /\ label = [p \in Procs |-> {}]
  /\ err = [p \in Procs |-> "none"]
  /\ pushed = [p \in Procs |-> <<>>]
  /\ calls = [p \in Procs |-> 0]
  /\ failed = [p \in Procs |-> FALSE]

FilterIdle ==
  /\ data = <<>> /\ ywhole = <<>> /\ wdone = FALSE
  /\ yblocks = <<>> /\ bpos = 0 /\ firstlen = 0

\* one clip evaluation: a free scorer on up to MaxFrames frames, or a script
Init ==
  /\ EvalIdle /\ FilterIdle
  /\ pc = [p \in Procs |-> IF p = 1 THEN "fill" ELSE "idle"]
  /\ \E sc \in {Free} \cup {Scripted(s) : s \in Scripts} :
     \E n \in 0..MaxFrames :
       /\ scorer = [p \in Procs |-> IF p = 1 THEN sc ELSE Free]
       /\ nframes = [p \in Procs |->
                       IF p # 1 THEN 0
                       ELSE IF sc.mode = "free" THEN n ELSE Len(sc.seq)]

Next ==
  \E p \in Procs :
    \/ FillPush(p)
    \/ FillIndexError(p)
    \/ ScorerFails(p)
    \/ SteadyPush(p)
    \/ predict_output(p)

Spec == Init /\ [][Next]_vars

\* two clip evaluations whose per-frame steps interleave, scripted scorers
InitConc ==
  /\ EvalIdle /\ FilterIdle
  /\ pc = [p \in Procs |-> "fill"]
  /\ \E s1 \in Scripts : \E s2 \in Scripts :
       /\ scorer = [p \in Procs |-> IF p = 1 THEN Scripted(s1) ELSE Scripted(s2)]
       /\ nframes = [p \in Procs |-> IF p = 1 THEN Len(s1) ELSE Len(s2)]

SpecConc == InitConc /\ [][Next]_vars

\* the conditioner on one recording, whole and block by block
InitFilt ==
  /\ EvalIdle
  /\ pc = [p \in Procs |-> "idle"]
  /\ scorer = [p \in Procs |-> Free]
  /\ nframes = [p \in Procs |-> 0]
  /\ \E len \in 1..MaxLen : data \in [1..len -> Samples]
  /\ ywhole = <<>> /\ wdone = FALSE
  /\ yblocks = <<>> /\ bpos = 0 /\ firstlen = 0

NextFilt == ConditionWhole \/ ConditionBlock

SpecFilt == InitFilt /\ [][NextFilt]_vars

\* ------------------------------------------------------------- properties
Last(s) == s[Len(s)]
Sirens(cl) == Cardinality({k \in DOMAIN cl : cl[k] = 1})
DecisionOfPush(p, k) == class_list[p][k - N + 1]
HasDecisionOfPush(p, k) == Len(class_list[p]) >= k - N + 1

\* C1: fewer than N pushed scores give no running decision, exactly N give
\* exactly one, and the probability window never holds more than N entries.
C1_WindowAndDecisionCount ==
  \A p \in Procs :
    /\ Len(prob_list[p]) <= N
    /\ (Len(pushed[p]) < N => class_list[p] = <<>>)
    /\ (Len(pushed[p]) = N => Len(class_list[p]) = 1)

C1_Witness ==
  /\ Len(pushed[1]) = N /\ Len(class_list[1]) = 1 /\ Len(prob_list[1]) = N

C3_TransitionAtPush11 ==
  scorer[1] = Scripted(Script910) =>
    /\ (HasDecisionOfPush(1, 10) => DecisionOfPush(1, 10) = 1)
    /\ (HasDecisionOfPush(1, 11) => DecisionOfPush(1, 11) = 0)

\* C3 amended: with ten 0.9 then ten 0.1, the decisions of pushes 10 to 14
\* are siren and the decisions of pushes 15 to 20 are non-siren: the first
\* non-siren decision is that of push 15, whose window holds five 0.9 and
\* five 0.1 and has mean exactly th.
C3_TransitionAtPush15 ==
  scorer[1] = Scripted(Script910) =>
    \A k \in N..20 :
      HasDecisionOfPush(1, k) =>
        DecisionOfPush(1, k) = (IF k < 15 THEN 1 ELSE 0)

C3_Witness ==
  /\ scorer[1] = Scripted(Script910)
  /\ Len(pushed[1]) = 15
  /\ DecisionOfPush(1, 14) = 1
  /\ DecisionOfPush(1, 15) = 0

\* C4: predict_output returns siren exactly when strictly more than half of
\* the running decisions are siren; exactly half gives non-siren.
C4_StrictMajority ==
  \A p \in Procs :
    pc[p] = "done" =>
      /\ Len(class_list[p]) > 0
      /\ (label[p] = {1} <=> 2 * Sirens(class_list[p]) > Len(class_list[p]))
      /\ (2 * Sirens(class_list[p]) <= Len(class_list[p]) => label[p] = {0})

C4_Witness ==
  /\ pc[1] = "done"
  /\ Len(class_list[1]) >= 2
  /\ 2 * Sirens(class_list[1]) = Len(class_list[1])
  /\ label[1] = {0}

\* C5: a clip with fewer than N frames never gets a label: its evaluation
\* leaves the fill loop only by raising, with no running decision made.
C5_ShortClipFails ==
  \A p \in Procs :
    (nframes[p] < N /\ pc[p] # "idle") =>
      /\ label[p] = {}
      /\ class_list[p] = <<>>
      /\ pc[p] \in {"fill", "raised"}
      /\ (pc[p] = "raised" => err[p] \in {"IndexError", "ScorerUnavailable"})
      /\ (i[p] = nframes[p] => pc[p] = "raised" \/ ENABLED FillIndexError(p))

C5_Witness ==
  /\ nframes[1] < N /\ nframes[1] > 0
  /\ i[1] = nframes[1]
  /\ pc[1] = "raised" /\ err[1] = "IndexError"
  /\ label[1] = {}

\* C6: once N scores are pushed the window is the last N pushed scores in
\* arrival order, and the k-th running decision is computed from pushed
\* scores k .. k+N-1.
C6_FifoWindow ==
  \A p \in Procs :
    pc[p] \in {"steady", "done"} =>
      /\ Len(pushed[p]) >= N
      /\ prob_list[p] = SubSeq(pushed[p], Len(pushed[p]) - N + 1, Len(pushed[p]))
      /\ Len(class_list[p]) = Len(pushed[p]) - N + 1
      /\ \A k \in 1..Len(class_list[p]) :
           class_list[p][k] = 1 <=> SeqSum(SubSeq(pushed[p], k, k + N - 1)) > th * N

C6_Witness ==
  /\ pc[1] = "steady"
  /\ Len(pushed[1]) >= N + 2
  /\ pushed[1][1] = 9 /\ pushed[1][2] = 9 /\ pushed[1][3] = 1
  /\ prob_list[1][1] = 1
  /\ Last(prob_list[1]) = 9

C9_ScorerFailurePropagates ==
  \A p \in Procs :
    failed[p] =>
      /\ pc[p] = "raised" /\ err[p] = "ScorerUnavailable"
      /\ label[p] = {}
      /\ calls[p] = Len(pushed[p]) + 1
      /\ Len(prob_list[p]) <= Len(pushed[p])
      /\ prob_list[p] = SubSeq(pushed[p], Len(pushed[p]) - Len(prob_list[p]) + 1,
                               Len(pushed[p]))
      /\ Len(class_list[p]) = (IF Len(pushed[p]) < N THEN 0 ELSE Len(pushed[p]) - N + 1)

C9_Witness ==
  /\ failed[1] /\ pc[1] = "raised"
  /\ Len(class_list[1]) >= 2
  /\ Len(prob_list[1]) = N - 1
  /\ label[1] = {}

\* the running decisions and the label of a clip evaluated alone
AloneDecisions(seq) ==
  [k \in 1..(Len(seq) - N + 1) |-> Classify(SubSeq(seq, k, k + N - 1))]
AloneLabel(seq) == Aggregate(AloneDecisions(seq))

\* C10: under every interleaving of two evaluations, each evaluation's
\* scores, running decisions and label are those of its own clip evaluated
\* alone.
C10_NoInterference ==
  \A p \in Procs :
    /\ pushed[p] = SubSeq(scorer[p].seq, 1, Len(pushed[p]))
    /\ class_list[p] = AloneDecisions(pushed[p])
    /\ (pc[p] = "steady" => prob_list[p] = SubSeq(pushed[p], Len(pushed[p]) - N + 1, Len(pushed[p])))
    /\ (pc[p] = "done" => /\ pushed[p] = scorer[p].seq
                          /\ label[p] = {AloneLabel(scorer[p].seq)})

C10_Witness ==
  /\ pc[1] = "done" /\ label[1] = {1}
  /\ pc[2] = "steady" /\ i[2] < nframes[2]
  /\ Len(class_list[2]) >= 6
  /\ Last(class_list[2]) = 0
  /\ prob_list[1] # prob_list[2]

====
